---- MODULE Spec2Model ----
(***************************************************************************)
(* Reaching-definitions optimizer of opt-for-lang2: the IR (ir.rs), the    *)
(* directed graph container (graph.rs), the CFG builder, the iterative     *)
(* reaching-definitions solver and the propagation rewriter (lib.rs), and  *)
(* the stack VM that runs the IR (vm.rs).                                  *)
(*                                                                         *)
(* Indices are 0-based as in the source; a Vec v is a sequence read at     *)
(* v[i + 1].  An i64 is its two's-complement bit pattern, a little-endian  *)
(* tuple of Limbs digits in base Base, so that 64-bit overflow is exact.   *)
(***************************************************************************)
EXTENDS Integers, Sequences, FiniteSets, TLC

VARIABLES
    program,          \* the Vec<Stmt> the caller built
    input,            \* the Vec<Stmt> handed to the current Optimizer::new
    outputs,          \* what the optimize() calls so far returned, in order
    pc,               \* position of the caller / of Optimizer::optimize
    code,             \* Optimizer.code : DirectedGraph<Stmt>
    in_defs,          \* Optimizer.in_defs
    out_defs,         \* Optimizer.out_defs
    defs,             \* Optimizer.defs
    def_exprs,        \* Optimizer.def_exprs
    vm,               \* the two VMs run side by side (original, optimized)
    graph,            \* a DirectedGraph<i32> driven directly by a caller
    expr,             \* the Expr handed to Expr::to_value
    value,            \* what Expr::to_value returned
    bbs,              \* the Vec<BasicBlock> stmts_to_bbs returned
    NEXT_LABEL        \* ir.rs's static counter behind Label::new

vars == <<program, input, outputs, pc, code, in_defs, out_defs, defs, def_exprs,
          vm, graph, expr, value, bbs, NEXT_LABEL>>

----------------------------------------------------------------------------
(* i64 *)

\* digits of an i64
Limbs == 8
\* base of one digit
Base == 256

RECURSIVE ToLimbs(_, _)
ToLimbs(n, k) == IF k = 0 THEN <<>> ELSE <<n % Base>> \o ToLimbs(n \div Base, k - 1)

\* the i64 of a small integer literal
I64(n) == ToLimbs(n, Limbs)

I64_MAX == [k \in 1..Limbs |-> IF k = Limbs THEN (Base \div 2) - 1 ELSE Base - 1]
I64_MIN == [k \in 1..Limbs |-> IF k = Limbs THEN Base \div 2 ELSE 0]

IsNegative(a) == a[Limbs] >= Base \div 2

RECURSIVE AddCarry(_, _, _, _)
AddCarry(a, b, k, carry) ==
    IF k > Len(a) THEN <<>>
    ELSE LET s == a[k] + b[k] + carry
         IN <<s % Base>> \o AddCarry(a, b, k + 1, s \div Base)

\* i64::wrapping_add
WrappingAdd(a, b) == AddCarry(a, b, 1, 0)

\* whether a + b leaves the i64 range
AddOverflows(a, b) ==
    /\ IsNegative(a) = IsNegative(b)
    /\ IsNegative(WrappingAdd(a, b)) # IsNegative(a)

RECURSIVE ColumnSum(_, _, _, _)
ColumnSum(a, b, k, i) ==
    IF i > Len(a) THEN 0
    ELSE (IF k + 1 - i >= 1 /\ k + 1 - i <= Len(b) THEN a[i] * b[k + 1 - i] ELSE 0)
         + ColumnSum(a, b, k, i + 1)

RECURSIVE MulColumns(_, _, _, _)
MulColumns(a, b, k, carry) ==
    IF k > Len(a) + Len(b) THEN <<>>
    ELSE LET s == ColumnSum(a, b, k, 1) + carry
         IN <<s % Base>> \o MulColumns(a, b, k + 1, s \div Base)

\* the 2*Limbs-digit product of two unsigned Limbs-digit numbers
FullProduct(a, b) == MulColumns(a, b, 1, 0)

\* i64::wrapping_mul
WrappingMul(a, b) == SubSeq(FullProduct(a, b), 1, Limbs)

Complement(a) == [k \in 1..Len(a) |-> Base - 1 - a[k]]

\* |a| as an unsigned number (|i64::MIN| = 2^63 fits)
Magnitude(a) == IF IsNegative(a) THEN WrappingAdd(Complement(a), I64(1)) ELSE a

\* whether a * b leaves the i64 range
MulOverflows(a, b) ==
    LET p == FullProduct(Magnitude(a), Magnitude(b))
        high == \E k \in (Limbs + 1)..(2 * Limbs) : p[k] # 0
        low == SubSeq(p, 1, Limbs)
    IN IF IsNegative(a) = IsNegative(b)
       THEN high \/ IsNegative(low)
       ELSE high \/ (IsNegative(low) /\ low # I64_MIN)

\* outcome of a call: a value, or a panic
Ok(v) == [ok |-> TRUE, v |-> v]
Panic == [ok |-> FALSE]

\* `+` on i64: panics on overflow when the build checks overflow, else wraps
\* (overflow checks are on in a debug build and off in a release build; either
\* outcome is one the build can produce)
CheckedAdd(a, b, checks) ==
    IF checks /\ AddOverflows(a, b) THEN Panic ELSE Ok(WrappingAdd(a, b))

\* `*` on i64
CheckedMul(a, b, checks) ==
    IF checks /\ MulOverflows(a, b) THEN Panic ELSE Ok(WrappingMul(a, b))

----------------------------------------------------------------------------
(* ir.rs: Expr, Stmt *)

IntLit(n) == [tag |-> "Int", n |-> n]
Add(lhs, rhs) == [tag |-> "Add", lhs |-> lhs, rhs |-> rhs]
Mul(lhs, rhs) == [tag |-> "Mul", lhs |-> lhs, rhs |-> rhs]
LoadCopy(loc) == [tag |-> "LoadCopy", loc |-> loc]

Store(loc, e) == [tag |-> "Store", loc |-> loc, expr |-> e]
ExprStmt(e) == [tag |-> "Expr", expr |-> e]
Label(label) == [tag |-> "Label", label |-> label]
Jump(label) == [tag |-> "Jump", label |-> label]
JumpIfZero(e, label) == [tag |-> "JumpIfZero", expr |-> e, label |-> label]
PrintStmt(e) == [tag |-> "Print", expr |-> e]

RECURSIVE is_const(_)
is_const(e) ==
    CASE e.tag = "Int" -> TRUE
      [] e.tag \in {"Add", "Mul"} -> is_const(e.lhs) /\ is_const(e.rhs)
      [] OTHER -> FALSE

RECURSIVE to_value(_, _)
to_value(e, checks) ==
    CASE e.tag = "Int" -> Ok(e.n)
      [] e.tag \in {"Add", "Mul"} ->
            LET l == to_value(e.lhs, checks)
            IN IF ~l.ok THEN Panic
               ELSE LET r == to_value(e.rhs, checks)
                    IN IF ~r.ok THEN Panic
                       ELSE IF e.tag = "Add" THEN CheckedAdd(l.v, r.v, checks)
                       ELSE CheckedMul(l.v, r.v, checks)
      [] OTHER -> Panic

is_label(s) == s.tag = "Label"
is_jump(s) == s.tag \in {"Jump", "JumpIfZero"}

----------------------------------------------------------------------------
(* graph.rs: DirectedGraph<T> *)

DirectedGraph_new == [nodes |-> <<>>, succ |-> <<>>, pred |-> <<>>]

len(g) == Len(g.nodes)

\* the graph after add(value); the index returned is len(g) before the call
add(g, v) ==
    [nodes |-> Append(g.nodes, v),
     succ |-> Append(g.succ, {}),
     pred |-> Append(g.pred, {})]

\* mutant: the predecessor is recorded on the wrong node
add_edge_pred_of_from(g, from, to) ==
    IF from >= Len(g.nodes) \/ to >= Len(g.nodes) THEN Panic
    ELSE Ok([g EXCEPT !.succ[from + 1] = @ \cup {to},
                      !.pred[from + 1] = @ \cup {to}])

add_edge(g, from, to) ==
    IF from >= Len(g.nodes) \/ to >= Len(g.nodes) THEN Panic
    ELSE Ok([g EXCEPT !.succ[from + 1] = @ \cup {to},
                      !.pred[to + 1] = @ \cup {from}])

succ_indexes(g, index) == g.succ[index + 1]
pred_indexes(g, index) == g.pred[index + 1]

----------------------------------------------------------------------------
(* lib.rs: code_to_graph *)

\* first loop: every statement becomes a node, labels maps a Label to its node
RECURSIVE AddNodes(_, _, _, _)
AddNodes(stmts, k, g, labels) ==
    IF k > Len(stmts) THEN [graph |-> g, labels |-> labels]
    ELSE LET stmt == stmts[k]
         IN IF stmt.tag = "Label"
            THEN AddNodes(stmts, k + 1, add(g, stmt), (stmt.label :> len(g)) @@ labels)
            ELSE AddNodes(stmts, k + 1, add(g, stmt), labels)

\* mutant: the fall-through edge is added after a Jump too
FallsThroughAfterJump(prev) == TRUE

\* whether control falls from prev into the next statement
FallsThrough(prev) == prev.tag # "Jump"

\* second loop: the jump edge of index, then the fall-through edge into it
RECURSIVE AddEdges(_, _, _)
AddEdges(g, labels, index) ==
    IF index >= len(g) THEN Ok(g)
    ELSE LET stmt == g.nodes[index + 1]
             jumped ==
                 IF is_jump(stmt)
                 THEN IF stmt.label \in DOMAIN labels
                      THEN add_edge(g, index, labels[stmt.label])
                      ELSE Panic
                 ELSE Ok(g)
         IN IF ~jumped.ok THEN Panic
            ELSE LET fallen ==
                         IF index >= 1 /\ FallsThrough(jumped.v.nodes[index])
                         THEN add_edge(jumped.v, index - 1, index)
                         ELSE jumped
                 IN IF ~fallen.ok THEN Panic
                    ELSE AddEdges(fallen.v, labels, index + 1)

code_to_graph(stmts) ==
    LET built == AddNodes(stmts, 1, DirectedGraph_new, <<>>)
    IN AddEdges(built.graph, built.labels, 0)

----------------------------------------------------------------------------
(* lib.rs: Optimizer::calc_reaching_definition *)

StoreIndexes(g) == {i \in 0..(len(g) - 1) : g.nodes[i + 1].tag = "Store"}

\* defs: slot -> the indexes that store it
ScanDefs(g) ==
    [loc \in {g.nodes[i + 1].loc : i \in StoreIndexes(g)} |->
        {i \in StoreIndexes(g) : g.nodes[i + 1].loc = loc}]

\* def_exprs: index of a Store -> its right-hand side
ScanDefExprs(g) == [i \in StoreIndexes(g) |-> g.nodes[i + 1].expr]

\* mutant: only the predecessors before i are read, back edges are lost
InOfEarlier(g, outs, i) == UNION {outs[p + 1] : p \in {q \in pred_indexes(g, i) : q < i}}

\* in[i]: the union of out over the predecessors of i
InOf(g, outs, i) == UNION {outs[p + 1] : p \in pred_indexes(g, i)}

Gen(g, i) == IF g.nodes[i + 1].tag = "Store" THEN {i} ELSE {}

\* mutant: a Store kills nothing
KillNothing(g, dfs, i) == {}

Kill(g, dfs, i) ==
    IF g.nodes[i + 1].tag = "Store" THEN dfs[g.nodes[i + 1].loc] \ {i} ELSE {}

\* out[i] = gen[i] U (in[i] - kill[i])
Transfer(gen, kill, ins) == gen \cup (ins \ kill)

\* one `for i in 0..self.code.len()` sweep, from node i on
RECURSIVE Sweep(_, _, _, _, _)
Sweep(g, dfs, ins, outs, i) ==
    IF i >= len(g) THEN [ins |-> ins, outs |-> outs]
    ELSE LET in_i == InOf(g, outs, i)
             out_i == Transfer(Gen(g, i), Kill(g, dfs, i), in_i)
         IN Sweep(g, dfs, [ins EXCEPT ![i + 1] = in_i],
                  [outs EXCEPT ![i + 1] = out_i], i + 1)

\* mutant: the exit test compares IN with the old OUT and OUT with the old IN
ConvergedCrossed(prev_in, prev_out, new_in, new_out) ==
    new_in = prev_out /\ new_out = prev_in

\* the loop's exit test
Converged(prev_in, prev_out, new_in, new_out) ==
    new_in = prev_in /\ new_out = prev_out

----------------------------------------------------------------------------
(* lib.rs: Optimizer::optimize_expr, optimize_stmt *)

\* the copy-propagation test of lines 82-84
CopyIsSafe(i, only_def, loc) ==
    LET reached_defs == defs[loc] \cap in_defs[only_def + 1]
    IN ((in_defs[i + 1] \cap defs[loc]) \ reached_defs) = {}

RECURSIVE optimize_expr(_, _, _)
optimize_expr(i, e, checks) ==
    CASE e.tag = "LoadCopy" ->
            IF e.loc \notin DOMAIN defs THEN Ok(e)
            ELSE LET reached_defs == defs[e.loc] \cap in_defs[i + 1]
                 IN IF Cardinality(reached_defs) # 1 THEN Ok(e)
                    ELSE LET only_def == CHOOSE d \in reached_defs : TRUE
                             new_expr == def_exprs[only_def]
                         IN IF new_expr.tag = "LoadCopy" /\ new_expr.loc \notin DOMAIN defs
                            THEN Panic   \* self.defs[&loc] on a slot no Store defines
                            ELSE IF new_expr.tag = "LoadCopy"
                                    /\ CopyIsSafe(i, only_def, new_expr.loc)
                            THEN Ok(LoadCopy(new_expr.loc))
                            ELSE IF is_const(new_expr)
                            THEN LET c == to_value(new_expr, checks)
                                 IN IF c.ok THEN Ok(IntLit(c.v)) ELSE Panic
                            ELSE Ok(e)
      [] e.tag \in {"Add", "Mul"} ->
            LET l == optimize_expr(i, e.lhs, checks)
            IN IF ~l.ok THEN Panic
               ELSE LET r == optimize_expr(i, e.rhs, checks)
                    IN IF ~r.ok THEN Panic
                       ELSE LET node == [e EXCEPT !.lhs = l.v, !.rhs = r.v]
                            IN IF is_const(node)
                               THEN LET c == to_value(node, checks)
                                    IN IF c.ok THEN Ok(IntLit(c.v)) ELSE Panic
                               ELSE Ok(node)
      [] OTHER -> Ok(e)

\* the statements whose expression optimize_stmt rewrites
RewrittenTags == {"Store", "Expr", "JumpIfZero"}

optimize_stmt(i, stmt, checks) ==
    IF stmt.tag \in RewrittenTags
    THEN LET r == optimize_expr(i, stmt.expr, checks)
         IN IF r.ok THEN Ok([stmt EXCEPT !.expr = r.v]) ELSE Panic
    ELSE Ok(stmt)

\* the rewriting loop of optimize(): every statement of the graph, in order
RewriteAll(checks) ==
    LET each == [k \in 1..len(code) |-> optimize_stmt(k - 1, code.nodes[k], checks)]
    IN IF \E k \in 1..len(code) : ~each[k].ok THEN Panic
       ELSE Ok([k \in 1..len(code) |-> each[k].v])

----------------------------------------------------------------------------
(* vm.rs: lowering to instructions, and the VM *)

STACK_SIZE == 500
MAX_VARIABLES == 50

RECURSIVE expr_to_insts(_)
expr_to_insts(e) ==
    CASE e.tag = "Int" -> <<[op |-> "Int", n |-> e.n]>>
      [] e.tag = "Add" -> expr_to_insts(e.lhs) \o expr_to_insts(e.rhs) \o <<[op |-> "Add"]>>
      [] e.tag = "Mul" -> expr_to_insts(e.lhs) \o expr_to_insts(e.rhs) \o <<[op |-> "Mul"]>>
      [] e.tag = "LoadCopy" -> <<[op |-> "LoadCopy", loc |-> e.loc]>>

\* the instructions one statement appends; a Label appends none
stmt_to_insts(stmt) ==
    CASE stmt.tag = "Expr" -> expr_to_insts(stmt.expr)
      [] stmt.tag = "Store" -> expr_to_insts(stmt.expr) \o <<[op |-> "Store", loc |-> stmt.loc]>>
      [] stmt.tag = "Label" -> <<>>
      [] stmt.tag = "Jump" -> <<[op |-> "Jump", loc |-> stmt.label]>>
      [] stmt.tag = "JumpIfZero" ->
            expr_to_insts(stmt.expr) \o <<[op |-> "JumpIfZero", loc |-> stmt.label]>>
      [] stmt.tag = "Print" -> expr_to_insts(stmt.expr) \o <<[op |-> "Call", id |-> 0]>>

\* first loop of ir_to_insts: the instructions, and each label's position
RECURSIVE LowerStmts(_, _, _, _)
LowerStmts(stmts, k, insts, labels) ==
    IF k > Len(stmts) THEN [insts |-> insts, labels |-> labels]
    ELSE LET stmt == stmts[k]
         IN LowerStmts(stmts, k + 1, insts \o stmt_to_insts(stmt),
                       IF stmt.tag = "Label"
                       THEN (stmt.label :> Len(insts)) @@ labels
                       ELSE labels)

\* second loop of ir_to_insts: jump operands become positions
ir_to_insts(stmts) ==
    LET low == LowerStmts(stmts, 1, <<>>, <<>>)
        jumps == {k \in 1..Len(low.insts) : low.insts[k].op \in {"Jump", "JumpIfZero"}}
    IN IF \E k \in jumps : low.insts[k].loc \notin DOMAIN low.labels THEN Panic
       ELSE Ok([k \in 1..Len(low.insts) |->
                   IF k \in jumps
                   THEN [low.insts[k] EXCEPT !.loc = low.labels[low.insts[k].loc]]
                   ELSE low.insts[k]])

\* VM::new and the locals of run(); stack and variables hold the cells written
\* so far, every other cell is still 0
VM_new(insts) ==
    [insts |-> insts, ip |-> 0, sp |-> 0, stack |-> <<>>, variables |-> <<>>,
     out |-> <<>>, status |-> "running"]

Zero == I64(0)
Cell(mem, k) == IF k \in DOMAIN mem THEN mem[k] ELSE Zero
InStack(k) == k >= 0 /\ k < STACK_SIZE
InVariables(k) == k >= 0 /\ k < MAX_VARIABLES

Crash(m) == [m EXCEPT !.status = "panicked"]

\* stack[sp - 1] op= stack[sp]; sp -= 1
BinaryStep(m, checks) ==
    IF ~InStack(m.sp - 1) \/ ~InStack(m.sp) THEN Crash(m)
    ELSE LET a == Cell(m.stack, m.sp - 1)
             b == Cell(m.stack, m.sp)
             r == IF m.insts[m.ip + 1].op = "Add"
                  THEN CheckedAdd(a, b, checks) ELSE CheckedMul(a, b, checks)
         IN IF ~r.ok THEN Crash(m)
            ELSE [m EXCEPT !.stack = ((m.sp - 1) :> r.v) @@ @,
                           !.sp = @ - 1, !.ip = @ + 1]

\* sp -= 1 on a usize: at 0 it panics when overflow is checked, else wraps
\* (the wrapped value is written -1: every index made from it is out of range)
PopTo(m, checks, next_ip) ==
    IF m.sp = 0 /\ checks THEN Crash(m)
    ELSE [m EXCEPT !.sp = @ - 1, !.ip = next_ip]

\* one turn of the `while ip < code.len()` loop of VM::run
VMStep(m, checks) ==
    LET inst == m.insts[m.ip + 1]
    IN CASE inst.op \in {"Int", "LoadCopy"} ->
              IF ~InStack(m.sp + 1) THEN Crash(m)
              ELSE IF inst.op = "LoadCopy" /\ ~InVariables(inst.loc) THEN Crash(m)
              ELSE [m EXCEPT !.sp = @ + 1, !.ip = @ + 1,
                             !.stack = ((m.sp + 1) :>
                                 (IF inst.op = "Int" THEN inst.n
                                  ELSE Cell(m.variables, inst.loc))) @@ @]
         [] inst.op \in {"Add", "Mul"} -> BinaryStep(m, checks)
         [] inst.op = "Store" ->
              IF ~InVariables(inst.loc) \/ ~InStack(m.sp) THEN Crash(m)
              ELSE LET v == Cell(m.stack, m.sp)
                       w == [m EXCEPT !.variables = (inst.loc :> v) @@ @,
                                      !.out = Append(@, [ev |-> "store", loc |-> inst.loc, v |-> v])]
                   IN PopTo(w, checks, m.ip + 1)
         [] inst.op = "Jump" -> [m EXCEPT !.ip = inst.loc]
         [] inst.op = "JumpIfZero" ->
              IF ~InStack(m.sp) THEN Crash(m)
              ELSE PopTo(m, checks, IF Cell(m.stack, m.sp) = Zero THEN inst.loc ELSE m.ip)
         [] inst.op = "Call" ->
              IF inst.id # 0 \/ ~InStack(m.sp) THEN Crash(m)
              ELSE PopTo([m EXCEPT !.out = Append(@, [ev |-> "print", v |-> Cell(m.stack, m.sp)])],
                         checks, m.ip + 1)

Running(m) == m.status = "running" /\ m.ip < Len(m.insts)
Halted(m) == m.status = "running" /\ m.ip >= Len(m.insts)

\* VM::new().run(&ir_to_insts(stmts)), up to its first instruction
Boot(stmts) ==
    LET insts == ir_to_insts(stmts)
    IN IF insts.ok THEN VM_new(insts.v) ELSE Crash(VM_new(<<>>))

----------------------------------------------------------------------------
(* inputs *)

\* longest enumerated program
MaxLen == 4
\* optimize() calls the caller chains, each on the previous output
MaxRuns == 2
\* VM instructions executed per machine
MaxSteps == 6
\* nesting of the constant expressions handed to to_value
MaxDepth == 1
\* nodes of the directly driven graph
MaxNodes == 3

\* unique labels, every jump target declared
WellFormed(p) ==
    /\ \A i, j \in 1..Len(p) :
          (p[i].tag = "Label" /\ p[j].tag = "Label" /\ p[i].label = p[j].label) => i = j
    /\ \A i \in 1..Len(p) :
          is_jump(p[i]) => \E j \in 1..Len(p) : p[j] = Label(p[i].label)

\* the Label::new() calls behind the labels of p: labels are only made by
\* Label::new, so the counter stands past every label in use
LabelsMade(p) ==
    LET used == {p[k].label : k \in {j \in 1..Len(p) : p[j].tag \in {"Label", "Jump", "JumpIfZero"}}}
    IN IF used = {} THEN 0 ELSE (CHOOSE m \in used : \A l \in used : l <= m) + 1

\* the statements enumerated programs are made of
Alphabet ==
    { Label(0), Jump(0), JumpIfZero(LoadCopy(0), 0),
      Store(0, IntLit(I64(1))), Store(1, LoadCopy(0)),
      Store(0, Add(LoadCopy(1), IntLit(I64(1)))), PrintStmt(LoadCopy(1)) }

\* the programs of main.rs and of the end-to-end scenarios
Scenario1 ==
    << Store(0, IntLit(I64(10))), Store(0, IntLit(I64(40))), Store(1, LoadCopy(-1)),
       Store(2, LoadCopy(0)),
       ExprStmt(Add(LoadCopy(2), Mul(IntLit(I64(20)), LoadCopy(1)))) >>
Scenario2 ==
    << Store(0, IntLit(I64(10))), Store(0, Add(IntLit(I64(40)), IntLit(I64(5)))),
       Store(1, IntLit(I64(90))), Store(2, LoadCopy(0)),
       ExprStmt(Add(LoadCopy(2), Mul(IntLit(I64(20)), LoadCopy(1)))) >>
Scenario3 ==
    << Store(0, IntLit(I64(10))), Store(0, IntLit(I64(20))), Store(1, LoadCopy(0)),
       Store(2, Add(LoadCopy(1), IntLit(I64(5)))) >>
Scenario4 ==
    << Store(0, IntLit(I64(10))), Store(1, LoadCopy(0)), Store(0, IntLit(I64(99))),
       ExprStmt(LoadCopy(1)) >>
Scenario5 ==
    << Store(0, IntLit(I64(30))), Jump(0), Label(1),
       ExprStmt(Add(LoadCopy(0), LoadCopy(1))), Store(0, IntLit(I64(5))), Label(0),
       Store(1, IntLit(I64(50))), PrintStmt(LoadCopy(1)) >>
Scenario6 == << Store(1, LoadCopy(-1)) >>
Scenarios == {Scenario1, Scenario2, Scenario3, Scenario4, Scenario5, Scenario6}

\* a loop whose body copies slot 0 to slot 1, stores slot 0 and tests slot 1
CopyInLoop ==
    << Label(0), Store(1, LoadCopy(0)), Store(0, IntLit(I64(1))),
       JumpIfZero(LoadCopy(1), 0) >>

Programs ==
    {p \in UNION {[1..n -> Alphabet] : n \in 0..MaxLen} : WellFormed(p)}
        \cup Scenarios \cup {CopyInLoop}

\* constant expressions, by nesting depth
EvalInts == {I64(0), I64(1), I64(-1), I64(3), I64_MAX, I64_MIN}
RECURSIVE ConstExprs(_)
ConstExprs(depth) ==
    IF depth = 0 THEN {IntLit(n) : n \in EvalInts}
    ELSE LET sub == ConstExprs(depth - 1)
         IN sub \cup {Add(a, b) : a, b \in sub} \cup {Mul(a, b) : a, b \in sub}

NoVM == [orig |-> VM_new(<<>>), opt |-> VM_new(<<>>), steps |-> 0]
NotEvaluated == [ok |-> FALSE, pending |-> TRUE]

----------------------------------------------------------------------------
(* the caller of the optimizer: Optimizer::new(code).optimize(), then either
   the same again on the result, or both programs on the VM *)

Init ==
    /\ program = <<>>
    /\ input = <<>>
    /\ outputs = <<>>
    /\ pc = "start"
    /\ code = DirectedGraph_new
    /\ in_defs = <<>>
    /\ out_defs = <<>>
    /\ defs = <<>>
    /\ def_exprs = <<>>
    /\ vm = NoVM
    /\ graph = DirectedGraph_new
    /\ expr = IntLit(Zero)
    /\ value = NotEvaluated
    /\ bbs = <<>>
    /\ NEXT_LABEL = 0

\* the caller builds its Vec<Stmt>
Build ==
    /\ pc = "start"
    /\ program' \in Programs
    /\ input' = program'
    /\ NEXT_LABEL' = LabelsMade(program')
    /\ pc' = "new"
    /\ UNCHANGED <<outputs, code, in_defs, out_defs, defs, def_exprs,
                   vm, graph, expr, value, bbs>>

\* Optimizer::new
New ==
    /\ pc = "new"
    /\ LET g == code_to_graph(input)
       IN IF g.ok
          THEN /\ code' = g.v
               /\ pc' = "scan"
          ELSE /\ code' = DirectedGraph_new
               /\ pc' = "panicked"
    /\ in_defs' = [k \in 1..Len(input) |-> {}]
    /\ out_defs' = [k \in 1..Len(input) |-> {}]
    /\ defs' = <<>>
    /\ def_exprs' = <<>>
    /\ UNCHANGED <<program, input, outputs, vm, graph, expr, value, bbs, NEXT_LABEL>>

\* calc_reaching_definition, its first loop
Scan ==
    /\ pc = "scan"
    /\ defs' = ScanDefs(code)
    /\ def_exprs' = ScanDefExprs(code)
    /\ pc' = "loop"
    /\ UNCHANGED <<program, input, outputs, code, in_defs, out_defs,
                   vm, graph, expr, value, bbs, NEXT_LABEL>>

\* calc_reaching_definition, one turn of its `loop`
Pass ==
    /\ pc = "loop"
    /\ LET s == Sweep(code, defs, in_defs, out_defs, 0)
       IN /\ in_defs' = s.ins
          /\ out_defs' = s.outs
          /\ pc' = IF Converged(in_defs, out_defs, s.ins, s.outs) THEN "rewrite" ELSE "loop"
    /\ UNCHANGED <<program, input, outputs, code, defs, def_exprs,
                   vm, graph, expr, value, bbs, NEXT_LABEL>>

\* optimize(), after calc_reaching_definition
Rewrite ==
    /\ pc = "rewrite"
    /\ \E checks \in BOOLEAN :
          LET r == RewriteAll(checks)
          IN IF r.ok
             THEN /\ outputs' = Append(outputs, r.v)
                  /\ pc' = "done"
             ELSE /\ outputs' = outputs
                  /\ pc' = "panicked"
    /\ UNCHANGED <<program, input, code, in_defs, out_defs, defs, def_exprs,
                   vm, graph, expr, value, bbs, NEXT_LABEL>>

\* the caller optimizes the output again
Again ==
    /\ pc = "done"
    /\ Len(outputs) < MaxRuns
    /\ input' = outputs[Len(outputs)]
    /\ pc' = "new"
    /\ UNCHANGED <<program, outputs, code, in_defs, out_defs, defs, def_exprs,
                   vm, graph, expr, value, bbs, NEXT_LABEL>>

\* the caller lowers the program and its optimized form, one VM each
Run ==
    /\ pc = "done"
    /\ Len(outputs) = 1
    /\ vm' = [orig |-> Boot(program), opt |-> Boot(outputs[1]), steps |-> 0]
    /\ pc' = "run"
    /\ UNCHANGED <<program, input, outputs, code, in_defs, out_defs, defs, def_exprs,
                   graph, expr, value, bbs, NEXT_LABEL>>

\* one instruction on each VM that has not ended
Step ==
    /\ pc = "run"
    /\ vm.steps < MaxSteps
    /\ Running(vm.orig) \/ Running(vm.opt)
    /\ \E checks \in BOOLEAN :
          vm' = [orig |-> IF Running(vm.orig) THEN VMStep(vm.orig, checks) ELSE vm.orig,
                 opt |-> IF Running(vm.opt) THEN VMStep(vm.opt, checks) ELSE vm.opt,
                 steps |-> vm.steps + 1]
    /\ UNCHANGED <<program, input, outputs, pc, code, in_defs, out_defs, defs, def_exprs,
                   graph, expr, value, bbs, NEXT_LABEL>>

Next == Build \/ New \/ Scan \/ Pass \/ Rewrite \/ Again \/ Run \/ Step

Spec == Init /\ [][Next]_vars

\* the optimizer up to the end of calc_reaching_definition; the `loop` is
\* sequential code nothing interrupts, so a turn that can be taken is taken
SolveNext == Build \/ New \/ Scan \/ Pass

SolveSpec == Init /\ [][SolveNext]_vars /\ WF_vars(Pass)

----------------------------------------------------------------------------
(* a caller handing code_to_graph any statement list, labels repeated or
   missing included *)

AnyPrograms == UNION {[1..n -> Alphabet] : n \in 0..MaxLen}

\* the caller builds a Vec<Stmt> without looking at its labels
BuildAny ==
    /\ pc = "start"
    /\ program' \in AnyPrograms
    /\ input' = program'
    /\ NEXT_LABEL' = LabelsMade(program')
    /\ pc' = "new"
    /\ UNCHANGED <<outputs, code, in_defs, out_defs, defs, def_exprs,
                   vm, graph, expr, value, bbs>>

CfgNext == BuildAny \/ New

CfgSpec == Init /\ [][CfgNext]_vars

----------------------------------------------------------------------------
(* ir.rs: BasicBlock, stmts_to_bbs *)

BasicBlock_new == [stmts |-> <<>>]

None == [some |-> FALSE]
Some(bb) == [some |-> TRUE, bb |-> bb]

push(bb, stmt) == [bb EXCEPT !.stmts = Append(@, stmt)]

\* the body of `for stmt in stmts`, for the statement stmt; st holds bbs,
\* curr_bb and the label counter
BlockStep(st, stmt) ==
    IF st.curr_bb.some
    THEN IF stmt.tag = "Label" /\ ~is_jump(stmt)
         THEN [st EXCEPT !.bbs = Append(@, push(st.curr_bb.bb, Jump(stmt.label))),
                         !.curr_bb = Some(push(BasicBlock_new, stmt))]
         ELSE IF is_jump(stmt)
         THEN [st EXCEPT !.bbs = Append(@, push(st.curr_bb.bb, stmt)),
                         !.curr_bb = None]
         ELSE [st EXCEPT !.curr_bb = Some(push(st.curr_bb.bb, stmt))]
    ELSE IF ~is_label(stmt)
         THEN [st EXCEPT !.curr_bb = Some(push(push(BasicBlock_new, Label(st.next_label)), stmt)),
                         !.next_label = @ + 1]
         ELSE [st EXCEPT !.curr_bb = Some(push(BasicBlock_new, stmt))]

RECURSIVE BlockLoop(_, _, _)
BlockLoop(stmts, k, st) ==
    IF k > Len(stmts) THEN st
    ELSE BlockLoop(stmts, k + 1, BlockStep(st, stmts[k]))

\* stmts_to_bbs(stmts) with the counter at next_label: the blocks returned and
\* the counter afterwards
stmts_to_bbs(stmts, next_label) ==
    LET st == BlockLoop(stmts, 1, [bbs |-> <<>>, curr_bb |-> None, next_label |-> next_label])
    IN [bbs |-> IF st.curr_bb.some THEN Append(st.bbs, st.curr_bb.bb) ELSE st.bbs,
        next_label |-> st.next_label]

(* a caller splitting a statement list into basic blocks *)

\* the caller builds a Vec<Stmt>
BuildStmts ==
    /\ pc = "start"
    /\ program' \in AnyPrograms
    /\ input' = program'
    /\ NEXT_LABEL' = LabelsMade(program')
    /\ pc' = "stmts"
    /\ UNCHANGED <<outputs, code, in_defs, out_defs, defs, def_exprs,
                   vm, graph, expr, value, bbs>>

\* stmts_to_bbs(stmts)
StmtsToBbs ==
    /\ pc = "stmts"
    /\ LET r == stmts_to_bbs(input, NEXT_LABEL)
       IN /\ bbs' = r.bbs
          /\ NEXT_LABEL' = r.next_label
    /\ pc' = "blocks"
    /\ UNCHANGED <<program, input, outputs, code, in_defs, out_defs, defs, def_exprs,
                   vm, graph, expr, value>>

BlockNext == BuildStmts \/ StmtsToBbs

BlockSpec == Init /\ [][BlockNext]_vars

----------------------------------------------------------------------------
(* a caller driving a DirectedGraph directly, as graph.rs's tests do *)

NodeValues == {30}

GraphInit ==
    /\ graph = DirectedGraph_new
    /\ pc = "graph"
    /\ program = <<>>
    /\ input = <<>>
    /\ outputs = <<>>
    /\ code = DirectedGraph_new
    /\ in_defs = <<>>
    /\ out_defs = <<>>
    /\ defs = <<>>
    /\ def_exprs = <<>>
    /\ vm = NoVM
    /\ expr = IntLit(Zero)
    /\ value = NotEvaluated
    /\ bbs = <<>>
    /\ NEXT_LABEL = 0

\* graph.add(value)
GraphAdd ==
    /\ pc = "graph"
    /\ len(graph) < MaxNodes
    /\ \E v \in NodeValues : graph' = add(graph, v)
    /\ UNCHANGED <<program, input, outputs, pc, code, in_defs, out_defs, defs, def_exprs,
                   vm, expr, value, bbs, NEXT_LABEL>>

\* graph.add_edge(from, to), in range or not
GraphAddEdge ==
    /\ pc = "graph"
    /\ \E from, to \in 0..MaxNodes :
          LET r == add_edge(graph, from, to)
          IN IF r.ok
             THEN /\ graph' = r.v
                  /\ pc' = pc
             ELSE /\ graph' = graph
                  /\ pc' = "panicked"
    /\ UNCHANGED <<program, input, outputs, code, in_defs, out_defs, defs, def_exprs,
                   vm, expr, value, bbs, NEXT_LABEL>>

GraphNext == GraphAdd \/ GraphAddEdge

GraphSpec == GraphInit /\ [][GraphNext]_vars

----------------------------------------------------------------------------
(* a caller of Expr::to_value on a constant expression *)

EvalInit ==
    /\ expr \in ConstExprs(MaxDepth)
    /\ value = NotEvaluated
    /\ pc = "eval"
    /\ program = <<>>
    /\ input = <<>>
    /\ outputs = <<>>
    /\ code = DirectedGraph_new
    /\ in_defs = <<>>
    /\ out_defs = <<>>
    /\ defs = <<>>
    /\ def_exprs = <<>>
    /\ vm = NoVM
    /\ graph = DirectedGraph_new
    /\ bbs = <<>>
    /\ NEXT_LABEL = 0

\* expr.to_value()
Evaluate ==
    /\ pc = "eval"
    /\ \E checks \in BOOLEAN : value' = to_value(expr, checks)
    /\ pc' = IF value'.ok THEN "evaluated" ELSE "panicked"
    /\ UNCHANGED <<program, input, outputs, code, in_defs, out_defs, defs, def_exprs,
                   vm, graph, expr, bbs, NEXT_LABEL>>

EvalNext == Evaluate

EvalSpec == EvalInit /\ [][EvalNext]_vars

----------------------------------------------------------------------------
(* what the claims speak of, read off the program text *)

Nodes(p) == 0..(Len(p) - 1)

\* idx(L): the index of the statement Label(L)
Idx(p, L) == CHOOSE j \in Nodes(p) : p[j + 1] = Label(L)

\* the successor sets the CFG is said to have
SaidSucc(p, i) ==
    LET s == p[i + 1]
        next == IF i + 1 < Len(p) THEN {i + 1} ELSE {}
    IN CASE s.tag = "Jump" -> {Idx(p, s.label)}
         [] s.tag = "JumpIfZero" -> {Idx(p, s.label)} \cup next
         [] OTHER -> next

SaidPred(p, i) == {q \in Nodes(p) : i \in SaidSucc(p, q)}

Stores(p) == {i \in Nodes(p) : p[i + 1].tag = "Store"}

\* a different Store to the slot that d defines
Redefines(p, j, d) == j \in Stores(p) /\ j # d /\ p[j + 1].loc = p[d + 1].loc

\* the nodes reached from d by a path of at least one edge none of whose
\* intermediate nodes redefines d's slot
RECURSIVE PathClosure(_, _, _)
PathClosure(p, d, R) ==
    LET more == R \cup UNION {SaidSucc(p, j) : j \in {k \in R : ~Redefines(p, k, d)}}
    IN IF more = R THEN R ELSE PathClosure(p, d, more)

ReachedFrom(p, d) == PathClosure(p, d, SaidSucc(p, d))

Solved == pc = "rewrite"

----------------------------------------------------------------------------
(* C8 *)

\* C8: for a well-formed program of n statements code_to_graph builds exactly
\* succ(i) = {idx(L)} for Jump(L), {idx(L), i+1} for JumpIfZero(_, L) when
\* i+1 < n, and {i+1} for every other statement when i+1 < n.
C8_SuccessorSets ==
    pc \in {"scan", "loop", "rewrite"} =>
        /\ code.nodes = input
        /\ \A i \in Nodes(input) : succ_indexes(code, i) = SaidSucc(input, i)

\* a built graph with a Jump and a JumpIfZero that both have a next statement
C8_Witness ==
    /\ pc = "scan"
    /\ \E i, j \in Nodes(input) :
          /\ input[i + 1].tag = "Jump" /\ i + 1 < Len(input)
          /\ input[j + 1].tag = "JumpIfZero" /\ j + 1 < Len(input)
          /\ Cardinality(succ_indexes(code, j)) = 2
          /\ succ_indexes(code, i) # {i + 1}

----------------------------------------------------------------------------
(* C9 *)

\* C9: after any add / in-range add_edge calls pred is the inverse of succ,
\* succ and pred have one entry per node, every stored index is below len(),
\* and adding an edge that is already there leaves the graph as it is.
C9_PredInverseOfSucc ==
    pc = "graph" =>
        /\ Len(graph.succ) = len(graph)
        /\ Len(graph.pred) = len(graph)
        /\ \A p \in 0..(len(graph) - 1) :
              /\ graph.succ[p + 1] \subseteq 0..(len(graph) - 1)
              /\ graph.pred[p + 1] \subseteq 0..(len(graph) - 1)
              /\ \A q \in 0..(len(graph) - 1) :
                    /\ (q \in graph.succ[p + 1]) <=> (p \in graph.pred[q + 1])
                    /\ q \in graph.succ[p + 1] => add_edge(graph, p, q) = Ok(graph)

\* a graph with an edge between two different nodes and a node entered twice
C9_Witness ==
    /\ pc = "graph"
    /\ \E p, q, r \in 0..(len(graph) - 1) :
          /\ p # q /\ q # r /\ p # r
          /\ graph.succ[p + 1] = {q, r}
          /\ graph.pred[r + 1] = {p, q}

----------------------------------------------------------------------------
(* C10 *)

\* C10: to_value never aborts on a constant expression, and
\* to_value(Add(a, b)) is to_value(a) + to_value(b) wrapped into i64,
\* likewise for Mul.
C10_WrapsNeverAborts ==
    pc \in {"evaluated", "panicked"} =>
        /\ value.ok
        /\ expr.tag = "Int" => value.v = expr.n
        /\ expr.tag \in {"Add", "Mul"} =>
              LET a == to_value(expr.lhs, FALSE)
                  b == to_value(expr.rhs, FALSE)
              IN /\ value.v = IF expr.tag = "Add" THEN WrappingAdd(a.v, b.v)
                              ELSE WrappingMul(a.v, b.v)

----------------------------------------------------------------------------
(* C5, C6, C7 *)

SaidGen(p, i) == IF i \in Stores(p) THEN {i} ELSE {}
SaidKill(p, i) == IF i \in Stores(p) THEN {j \in Stores(p) : Redefines(p, j, i)} ELSE {}

\* C5: when calc_reaching_definition returns, for every node i
\* IN[i] is the union of OUT[p] over the CFG predecessors p of i (so OUT[p] is
\* within IN[q] for every edge p -> q, back edges included) and
\* OUT[i] = gen[i] U (IN[i] \ kill[i]).
C5_FixedPoint ==
    Solved =>
        /\ \A i \in Nodes(input) :
              /\ in_defs[i + 1] = UNION {out_defs[p + 1] : p \in SaidPred(input, i)}
              /\ out_defs[i + 1] =
                    SaidGen(input, i) \cup (in_defs[i + 1] \ SaidKill(input, i))
        /\ \A p \in Nodes(input) : \A q \in succ_indexes(code, p) :
              out_defs[p + 1] \subseteq in_defs[q + 1]

\* solved, with a definition flowing along a back edge and another one killed
C5_Witness ==
    /\ Solved
    /\ \E p, q \in Nodes(input) :
          /\ q \in succ_indexes(code, p) /\ q <= p
          /\ out_defs[p + 1] # {}
          /\ \E i \in Stores(input) : SaidKill(input, i) \cap in_defs[i + 1] # {}

\* C6: the solved IN sets are the path-based reaching definitions: d is in
\* IN[i] exactly when d is a Store and a CFG path of at least one edge leads
\* from d to i with no other Store to d's slot strictly inside it.
C6_ExactReachingDefinitions ==
    Solved =>
        \A i \in Nodes(input) :
            in_defs[i + 1] = {d \in Stores(input) : i \in ReachedFrom(input, d)}

\* solved, where a definition reaches an earlier node round a loop while an
\* earlier definition of the same slot does not reach it
C6_Witness ==
    /\ Solved
    /\ \E d, e \in Stores(input) : \E i \in Nodes(input) :
          /\ i <= d /\ d \in in_defs[i + 1]
          /\ e # d /\ input[e + 1].loc = input[d + 1].loc /\ e \notin in_defs[i + 1]
          /\ e \in UNION {in_defs[k + 1] : k \in Nodes(input)}

\* C7: the fixed-point loop ends for every well-formed program, cyclic CFGs
\* included: a sweep that changes neither IN nor OUT is eventually reached.
C7_LoopTerminates == (pc = "loop") ~> Solved

\* the loop has ended on a program whose CFG has a cycle that carries a
\* definition
C7_Witness ==
    /\ Solved
    /\ \E d \in Stores(input) : d \in in_defs[d + 1]

----------------------------------------------------------------------------
(* C1, C2, C3, C4 *)

\* the values stored to slot s, in order
StoredTo(out, s) ==
    LET IsStoreTo(ev) == ev.ev = "store" /\ ev.loc = s
    IN SelectSeq(out, IsStoreTo)

\* the values printed, in order
Printed(out) ==
    LET IsPrint(ev) == ev.ev = "print"
    IN SelectSeq(out, IsPrint)

SlotsOf(p) == {p[k].loc : k \in {j \in 1..Len(p) : p[j].tag = "Store"}}

\* C1: a well-formed program and its optimized form, run to the end on the
\* same VM from the same (zeroed) slots, store the same sequence of values to
\* every slot and print the same sequence of values.
C1_SemanticPreservation ==
    (pc = "run" /\ Halted(vm.orig) /\ Halted(vm.opt)) =>
        /\ \A s \in SlotsOf(program) : StoredTo(vm.orig.out, s) = StoredTo(vm.opt.out, s)
        /\ Printed(vm.orig.out) = Printed(vm.opt.out)

\* C2: optimizing the output of optimize again returns it unchanged.
C2_Idempotent ==
    Len(outputs) >= 2 => outputs[2] = outputs[1]

\* the first optimize() has returned and its analysis is still in place
FirstDone == pc = "done" /\ Len(outputs) = 1

\* the one definition of slot s in IN[i], when there is exactly one
OnlyDef(i, s) ==
    IF s \in DOMAIN defs /\ Cardinality(defs[s] \cap in_defs[i + 1]) = 1
    THEN {CHOOSE d \in defs[s] \cap in_defs[i + 1] : TRUE}
    ELSE {}

\* C3: a load of s at statement i whose only reaching definition is
\* Store(s, LoadCopy(t)), where the only definition of t reaching that store
\* has a constant right-hand side of value c, becomes Int(c) in one pass, and
\* enclosing Add/Mul nodes whose operands are then constant are folded:
\* scenario 3 yields Store(2, Int(25)), scenario 2 ends in Expr(Int(1845)).
C3_ConstantsThroughCopies ==
    FirstDone =>
        /\ \A i \in Nodes(input) :
              (input[i + 1].tag \in RewrittenTags /\ input[i + 1].expr.tag = "LoadCopy") =>
                  \A d \in OnlyDef(i, input[i + 1].expr.loc) :
                      def_exprs[d].tag = "LoadCopy" =>
                          \A d2 \in OnlyDef(d, def_exprs[d].loc) :
                              is_const(def_exprs[d2]) =>
                                  outputs[1][i + 1].expr =
                                      IntLit(to_value(def_exprs[d2], FALSE).v)
        /\ program = Scenario3 => outputs[1][4] = Store(2, IntLit(I64(25)))
        /\ program = Scenario2 => outputs[1][5] = ExprStmt(IntLit(I64(1845)))

\* C4: Print(LoadCopy(s)) at i with exactly one definition of s in IN[i],
\* whose right-hand side is a constant of value c, becomes Print(Int(c))
\* (scenario 5: Print(LoadCopy(1)) becomes Print(Int(50))).
C4_PrintOperandRewritten ==
    FirstDone =>
        \A i \in Nodes(input) :
            (input[i + 1].tag = "Print" /\ input[i + 1].expr.tag = "LoadCopy") =>
                \A d \in OnlyDef(i, input[i + 1].expr.loc) :
                    is_const(def_exprs[d]) =>
                        outputs[1][i + 1] = PrintStmt(IntLit(to_value(def_exprs[d], FALSE).v))

----------------------------------------------------------------------------
(* C11 *)

\* the pairs <<s, t>> such that a LoadCopy(s) of before stands as LoadCopy(t),
\* t # s, at the same place of after
RECURSIVE CopiedSlots(_, _)
CopiedSlots(before, after) ==
    CASE before.tag = "LoadCopy" /\ after.tag = "LoadCopy" /\ before.loc # after.loc ->
            {<<before.loc, after.loc>>}
      [] before.tag \in {"Add", "Mul"} /\ after.tag = before.tag ->
            CopiedSlots(before.lhs, after.lhs) \cup CopiedSlots(before.rhs, after.rhs)
      [] OTHER -> {}

RECURSIVE AvoidingClosure(_, _, _)
AvoidingClosure(p, d, R) ==
    LET more == R \cup UNION {SaidSucc(p, j) : j \in R \ {d}}
    IN IF more = R THEN R ELSE AvoidingClosure(p, d, more)

\* the nodes reached from node `from` by a path of at least one edge that does
\* not pass through d on the way
AfterAvoiding(p, d, from) == AvoidingClosure(p, d, SaidSucc(p, from))

\* a Store to slot t on a path that leaves d and arrives at i before it is
\* back at d
StoreBetween(p, d, i, t) ==
    \E e \in Stores(p) \ {d} :
        /\ p[e + 1].loc = t
        /\ e \in AfterAvoiding(p, d, d)
        /\ i \in AfterAvoiding(p, d, e)

\* C11: whenever optimize replaces a load LoadCopy(s) at statement i by
\* LoadCopy(t), d being the one definition of s in IN[i], no Store to t lies
\* on a CFG path from d to i; already the paths that do not come back to d
\* before they arrive at i carry no such Store.
C11_CopyPropagationSafe ==
    FirstDone =>
        \A i \in Nodes(input) :
            input[i + 1].tag \in RewrittenTags =>
                \A c \in CopiedSlots(input[i + 1].expr, outputs[1][i + 1].expr) :
                    \A d \in OnlyDef(i, c[1]) :
                        ~StoreBetween(input, d, i, c[2])

----------------------------------------------------------------------------
(* C12 *)

\* the slots an expression loads
RECURSIVE LoadsOf(_)
LoadsOf(e) ==
    CASE e.tag = "LoadCopy" -> {e.loc}
      [] e.tag \in {"Add", "Mul"} -> LoadsOf(e.lhs) \cup LoadsOf(e.rhs)
      [] OTHER -> {}

\* statement i loads a slot whose one definition in IN[i] is
\* Store(s, LoadCopy(u)) with u stored nowhere
CopiesUnstored(i) ==
    /\ input[i + 1].tag \in RewrittenTags
    /\ \E s \in LoadsOf(input[i + 1].expr) :
          \E d \in OnlyDef(i, s) :
              def_exprs[d].tag = "LoadCopy" /\ def_exprs[d].loc \notin DOMAIN defs

\* C12: a program with a load whose one reaching definition is
\* Store(s, LoadCopy(u)), u stored nowhere (scenario 1: LoadCopy(1) defined by
\* LoadCopy(-1)), does not make optimize abort, and in the output the
\* statement of that load is not a constant: the load is kept and the
\* enclosing Mul/Add is not folded.
C12_UnstoredSlotsLeftAlone ==
    /\ (pc = "panicked" /\ Len(outputs) = 0) =>
           ~\E i \in Nodes(input) : CopiesUnstored(i)
    /\ FirstDone =>
           \A i \in Nodes(input) :
               CopiesUnstored(i) => ~is_const(outputs[1][i + 1].expr)

----------------------------------------------------------------------------
(* C13 *)

\* two Label statements of p carry the same label
HasDuplicateLabel(p) ==
    \E i, j \in 1..Len(p) :
        i # j /\ p[i].tag = "Label" /\ p[j].tag = "Label" /\ p[i].label = p[j].label

\* code_to_graph has returned a graph to Optimizer::new
GraphReturned == pc = "scan"

\* C13: code_to_graph does not return a graph for a statement list in which
\* two Label statements carry the same label; it fails instead.
C13_DuplicateLabelFails ==
    HasDuplicateLabel(input) => ~GraphReturned

----------------------------------------------------------------------------
(* C14 *)

\* stmts_to_bbs has returned
BlocksReturned == pc = "blocks"

\* C14: every basic block stmts_to_bbs returns for a non-empty statement list,
\* the final block included, has a Label as its first statement and a Jump or
\* JumpIfZero as its last.
C14_BlocksLabelToJump ==
    (BlocksReturned /\ Len(input) > 0) =>
        \A b \in 1..Len(bbs) :
            /\ Len(bbs[b].stmts) > 0
            /\ is_label(bbs[b].stmts[1])
            /\ is_jump(bbs[b].stmts[Len(bbs[b].stmts)])

====
